---- MODULE Spec2Model ----
(***************************************************************************)
(* Keyword matching and scoring engine of the resume filter                *)
(* (backend/keyword_matcher.py, class KeywordMatcher).                     *)
(*                                                                         *)
(* A string is a sequence of one-character strings.  A call of             *)
(* analyze_resume, calculate_score or normalize_text is a run of the state *)
(* machine from pc = "idle" to pc = "done" or pc = "raised".               *)
(***************************************************************************)
EXTENDS Integers, Sequences, FiniteSets, Bags, TLC

\* ------------------------------------------------------------------------
\* Bounds of the model
\* ------------------------------------------------------------------------
MaxKeywords == 3

MaxDoubleWeight == 2

MaxStrLen == 5

MaxRepeat == 50

MaxShort == 2

MaxWordLen == 4

MaxPhraseKeywords == 2

\* calls of analyze_resume in progress at the same time
MaxInvocations == 2

\* custom profiles held at the same time
MaxCustomProfiles == 2

\* files uploaded in one request
MaxFiles == 2

\* config.py: the default of MIN_KEYWORD_SCORE
MIN_KEYWORD_SCORE == 50

\* resume_parser.py
MIN_TEXT_LENGTH == 100

\* ------------------------------------------------------------------------
\* Characters
\* ------------------------------------------------------------------------
Whitespace == {" ", "\t", "\n"}

LowerLetters ==
  {"a","b","c","d","e","f","g","h","i","j","k","l","m",
   "n","o","p","q","r","s","t","u","v","w","x","y","z"}

LowerMap ==
  [c \in {"A","B","C","E","O","S","T","W","X"} |->
     CASE c = "A" -> "a" [] c = "B" -> "b" [] c = "C" -> "c"
       [] c = "E" -> "e" [] c = "O" -> "o" [] c = "S" -> "s"
       [] c = "T" -> "t" [] c = "W" -> "w" [] c = "X" -> "x"]

UpperLetters == DOMAIN LowerMap

Digits == {"0","1","2","3","4","5","6","7","8","9"}

\* \w of the re module: letters, digits and the underscore
IsWordChar(c) == c \in LowerLetters \cup UpperLetters \cup Digits \cup {"_"}

\* ------------------------------------------------------------------------
\* str methods
\* ------------------------------------------------------------------------
Max(a, b) == IF a >= b THEN a ELSE b

\* str.lower()
str_lower(s) ==
  [i \in 1..Len(s) |-> IF s[i] \in UpperLetters THEN LowerMap[s[i]] ELSE s[i]]

\* a slip: r"\s\s" for r"\s+", whitespace is collapsed two by two
RECURSIVE re_sub_ws_pairs(_)
re_sub_ws_pairs(s) ==
  IF s = <<>> THEN <<>>
  ELSE IF Head(s) \in Whitespace
       THEN IF Len(s) >= 2 /\ s[2] \in Whitespace
            THEN <<" ">> \o re_sub_ws_pairs(Tail(Tail(s)))
            ELSE <<" ">> \o re_sub_ws_pairs(Tail(s))
       ELSE <<Head(s)>> \o re_sub_ws_pairs(Tail(s))

\* re.sub(r"\s+", " ", s): every maximal run of whitespace becomes one space
re_sub_ws(s) ==
  LET run_goes_on(i) == /\ s[i] \in Whitespace
                        /\ i < Len(s)
                        /\ s[i + 1] \in Whitespace
      kept(i) == ~run_goes_on(i)
      positions == SelectSeq([i \in 1..Len(s) |-> i], kept)
      collapsed == [k \in 1..Len(positions) |->
                      IF s[positions[k]] \in Whitespace THEN " "
                      ELSE s[positions[k]]]
  IN  SubSeq(collapsed, 1, Len(positions))

RECURSIVE str_lstrip(_)
str_lstrip(s) ==
  IF s # <<>> /\ Head(s) \in Whitespace THEN str_lstrip(Tail(s)) ELSE s

RECURSIVE str_rstrip(_)
str_rstrip(s) ==
  IF s # <<>> /\ s[Len(s)] \in Whitespace
  THEN str_rstrip(SubSeq(s, 1, Len(s) - 1))
  ELSE s

\* str.strip()
str_strip(s) == str_rstrip(str_lstrip(s))

\* str.split(): the maximal runs of non-whitespace characters
RECURSIVE str_split_from(_, _)
str_split_from(s, cur) ==
  IF s = <<>> THEN (IF cur = <<>> THEN <<>> ELSE <<cur>>)
  ELSE IF Head(s) \in Whitespace
       THEN (IF cur = <<>> THEN <<>> ELSE <<cur>>) \o str_split_from(Tail(s), <<>>)
       ELSE str_split_from(Tail(s), Append(cur, Head(s)))

str_split(s) == str_split_from(s, <<>>)

\* s.endswith(suf)
endswith(s, suf) ==
  /\ Len(s) >= Len(suf)
  /\ SubSeq(s, Len(s) - Len(suf) + 1, Len(s)) = suf

\* s[:-n]
drop_last(s, n) == SubSeq(s, 1, Max(Len(s) - n, 0))

\* ------------------------------------------------------------------------
\* KeywordMatcher.normalize_text
\* ------------------------------------------------------------------------
normalize_text(s) == str_strip(re_sub_ws(str_lower(s)))

\* ------------------------------------------------------------------------
\* KeywordMatcher.get_word_variations
\* ------------------------------------------------------------------------
Vowels == {"a", "e", "i", "o", "u"}

\* a slip: the last branch adds word[:-1] only, "buses" no longer gives "bus"
singular_variations_one(word) ==
  IF endswith(word, <<"i","e","s">>) /\ Len(word) > 3
  THEN {drop_last(word, 3) \o <<"y">>}
  ELSE IF endswith(word, <<"e","s">>)
  THEN IF \/ endswith(word, <<"s","s","e","s">>)
          \/ endswith(word, <<"s","h","e","s">>)
          \/ endswith(word, <<"c","h","e","s">>)
          \/ endswith(word, <<"x","e","s">>)
          \/ endswith(word, <<"z","e","s">>)
       THEN {drop_last(word, 2)}
       ELSE IF endswith(word, <<"v","e","s">>) /\ Len(word) > 3
       THEN {drop_last(word, 1),
             drop_last(word, 3) \o <<"f">>,
             drop_last(word, 3) \o <<"f","e">>}
       ELSE {drop_last(word, 1)}
  ELSE IF endswith(word, <<"s">>) /\ ~endswith(word, <<"s","s">>)
  THEN {drop_last(word, 1)}
  ELSE {}

\* the singular forms added for a word with a plural suffix
singular_variations(word) ==
  IF endswith(word, <<"i","e","s">>) /\ Len(word) > 3
  THEN {drop_last(word, 3) \o <<"y">>}
  ELSE IF endswith(word, <<"e","s">>)
  THEN IF \/ endswith(word, <<"s","s","e","s">>)
          \/ endswith(word, <<"s","h","e","s">>)
          \/ endswith(word, <<"c","h","e","s">>)
          \/ endswith(word, <<"x","e","s">>)
          \/ endswith(word, <<"z","e","s">>)
       THEN {drop_last(word, 2)}
       ELSE IF endswith(word, <<"v","e","s">>) /\ Len(word) > 3
       THEN {drop_last(word, 1),
             drop_last(word, 3) \o <<"f">>,
             drop_last(word, 3) \o <<"f","e">>}
       ELSE {drop_last(word, 1), drop_last(word, 2)}
  ELSE IF endswith(word, <<"s">>) /\ ~endswith(word, <<"s","s">>)
  THEN {drop_last(word, 1)}
  ELSE {}

\* the plural forms added for a word taken as singular
plural_variations(word) ==
  IF /\ endswith(word, <<"y">>)
     /\ Len(word) > 2
     /\ word[Len(word) - 1] \notin Vowels
  THEN {drop_last(word, 1) \o <<"i","e","s">>}
  ELSE IF \/ endswith(word, <<"s">>)
          \/ endswith(word, <<"s","h">>)
          \/ endswith(word, <<"c","h">>)
          \/ endswith(word, <<"x">>)
          \/ endswith(word, <<"z">>)
  THEN {word \o <<"e","s">>}
  ELSE IF endswith(word, <<"f">>)
  THEN {drop_last(word, 1) \o <<"v","e","s">>}
  ELSE IF endswith(word, <<"f","e">>)
  THEN {drop_last(word, 2) \o <<"v","e","s">>}
  ELSE {}

simple_plural(word) ==
  IF ~endswith(word, <<"s">>) THEN {word \o <<"s">>} ELSE {}

\* a slip: "variations = set()", the word itself is not put in
get_word_variations_no_base(w) ==
  LET word == str_strip(str_lower(w))
  IN  singular_variations(word) \cup plural_variations(word)
                                \cup simple_plural(word)

get_word_variations(w) ==
  LET word == str_strip(str_lower(w))
  IN  {word} \cup singular_variations(word)
             \cup plural_variations(word)
             \cup simple_plural(word)

\* ------------------------------------------------------------------------
\* Regular expressions built by generate_phrase_patterns: a pattern is a
\* sequence of atoms, "b" for \b, "s+" for \s+ and "lit" for one escaped
\* character.
\* ------------------------------------------------------------------------
WordBoundary == <<[t |-> "b", c |-> ""]>>

WhitespaceRun == <<[t |-> "s+", c |-> ""]>>

\* re.escape(w): every character of w matches itself
re_escape(w) == [i \in 1..Len(w) |-> [t |-> "lit", c |-> w[i]]]

\* r"\s+".join(re.escape(w) for w in words)
RECURSIVE join_words(_)
join_words(words) ==
  IF words = <<>> THEN <<>>
  ELSE IF Len(words) = 1 THEN re_escape(words[1])
  ELSE re_escape(Head(words)) \o WhitespaceRun \o join_words(Tail(words))

\* \b holds between position p and p + 1 of text (p characters precede it)
is_boundary(text, p) ==
  LET before == p >= 1 /\ IsWordChar(text[p])
      after  == p < Len(text) /\ IsWordChar(text[p + 1])
  IN  before # after

\* the atoms pattern[k..] match text from position p on
RECURSIVE match_from(_, _, _, _)
match_from(pattern, k, text, p) ==
  IF k > Len(pattern) THEN TRUE
  ELSE LET atom == pattern[k]
       IN  CASE atom.t = "b" ->
                  is_boundary(text, p) /\ match_from(pattern, k + 1, text, p)
             [] atom.t = "lit" ->
                  /\ p < Len(text)
                  /\ text[p + 1] = atom.c
                  /\ match_from(pattern, k + 1, text, p + 1)
             [] atom.t = "s+" ->
                  \E n \in 1..(Len(text) - p) :
                    /\ \A j \in (p + 1)..(p + n) : text[j] \in Whitespace
                    /\ match_from(pattern, k + 1, text, p + n)

\* re.search(pattern, text) is not None
re_search(pattern, text) ==
  \E p \in 0..Len(text) : match_from(pattern, 1, text, p)

\* ------------------------------------------------------------------------
\* KeywordMatcher.generate_phrase_patterns
\* raised is TRUE when the call ends in IndexError (word_variation_sets[-1]
\* of an empty list); patterns is the set of the patterns of the list.
\* ------------------------------------------------------------------------
\* a slip: a phrase is matched literally only, the variations of its last
\* word are left out
generate_phrase_patterns_literal(phrase) ==
  LET words == str_split(phrase)
  IN  IF Len(words) = 1
      THEN [raised |-> FALSE,
            patterns |-> {WordBoundary \o re_escape(v) \o WordBoundary :
                            v \in get_word_variations(words[1])}]
      ELSE IF Len(words) = 0
      THEN [raised |-> TRUE, patterns |-> {}]
      ELSE [raised |-> FALSE,
            patterns |-> {WordBoundary \o join_words(words) \o WordBoundary}]

generate_phrase_patterns(phrase) ==
  LET words == str_split(phrase)
  IN  IF Len(words) = 1
      THEN [raised |-> FALSE,
            patterns |-> {WordBoundary \o re_escape(v) \o WordBoundary :
                            v \in get_word_variations(words[1])}]
      ELSE IF Len(words) = 0
      THEN [raised |-> TRUE, patterns |-> {}]
      ELSE LET last == words[Len(words)]
               init == SubSeq(words, 1, Len(words) - 1)
           IN  [raised |-> FALSE,
                patterns |->
                  {WordBoundary \o join_words(words) \o WordBoundary} \cup
                  {WordBoundary \o join_words(Append(init, variation))
                     \o WordBoundary :
                     variation \in get_word_variations(last) \ {last}}]

\* ------------------------------------------------------------------------
\* Python float (IEEE 754 binary64) arithmetic of calculate_score.
\* A positive float is [zero |-> FALSE, m |-> bits, e |-> exponent]: m holds
\* the 53 significand bits, most significant first and m[1] = 1, and the
\* value is m * 2^(e - 52).  Results round to nearest, ties to even.
\* ------------------------------------------------------------------------
MantissaBits == 53

FloatZero == [zero |-> TRUE, m |-> <<>>, e |-> 0]

RECURSIVE Pow2(_)
Pow2(n) == IF n = 0 THEN 1 ELSE 2 * Pow2(n - 1)

\* bits are handled in chunks of at most ChunkBits bits, each an int
ChunkBits == 13

Min(a, b) == IF a <= b THEN a ELSE b

RECURSIVE bits_to_int(_)
bits_to_int(bits) ==
  IF bits = <<>> THEN 0
  ELSE 2 * bits_to_int(SubSeq(bits, 1, Len(bits) - 1)) + bits[Len(bits)]

\* the w lowest bits of n, most significant first
int_to_bits(n, w) == [i \in 1..w |-> (n \div Pow2(w - i)) % 2]

\* the number of bits of n, 0 for n = 0
RECURSIVE bit_length(_)
bit_length(n) == IF n = 0 THEN 0 ELSE 1 + bit_length(n \div 2)

\* bits + 1; a carry out of the top bit lengthens the sequence by one
bits_inc(bits) ==
  LET zeros == {i \in 1..Len(bits) : bits[i] = 0}
  IN  IF zeros = {}
      THEN <<1>> \o [i \in 1..Len(bits) |-> 0]
      ELSE LET k == CHOOSE i \in zeros : \A j \in zeros : j <= i
           IN  [i \in 1..Len(bits) |->
                  IF i < k THEN bits[i] ELSE IF i = k THEN 1 ELSE 0]

\* bits * n + carry for a small n, without leading zeros above bits
RECURSIVE bits_mul_small(_, _, _)
bits_mul_small(bits, n, carry) ==
  IF bits = <<>> THEN int_to_bits(carry, bit_length(carry))
  ELSE LET w == Min(Len(bits), ChunkBits)
           v == bits_to_int(SubSeq(bits, Len(bits) - w + 1, Len(bits)))
                  * n + carry
       IN  bits_mul_small(SubSeq(bits, 1, Len(bits) - w), n, v \div Pow2(w))
             \o int_to_bits(v % Pow2(w), w)

\* the float nearest to bits * 2^(e - (Len(bits) - 1)), bits[1] = 1,
\* Len(bits) >= MantissaBits, sticky says that lower non-zero bits were cut
float_round(bits, e, sticky) ==
  LET kept  == SubSeq(bits, 1, MantissaBits)
      rest  == SubSeq(bits, MantissaBits + 1, Len(bits))
      guard == rest # <<>> /\ rest[1] = 1
      low   == sticky \/ \E j \in 2..Len(rest) : rest[j] = 1
      up    == guard /\ (low \/ kept[MantissaBits] = 1)
      inc   == bits_inc(kept)
  IN  IF ~up THEN [zero |-> FALSE, m |-> kept, e |-> e]
      ELSE IF Len(inc) > MantissaBits
      THEN [zero |-> FALSE, m |-> SubSeq(inc, 1, MantissaBits), e |-> e + 1]
      ELSE [zero |-> FALSE, m |-> inc, e |-> e]

\* the first n bits after the binary point of r / d, for 0 <= r < d
RECURSIVE quotient_bits(_, _, _)
quotient_bits(r, d, n) ==
  IF n = 0 THEN <<>>
  ELSE LET w == Min(n, ChunkBits)
       IN  int_to_bits((r * Pow2(w)) \div d, w)
             \o quotient_bits((r * Pow2(w)) % d, d, n - w)

\* what is left of r after these n bits
RECURSIVE quotient_rem(_, _, _)
quotient_rem(r, d, n) ==
  IF n = 0 THEN r
  ELSE LET w == Min(n, ChunkBits)
       IN  quotient_rem((r * Pow2(w)) % d, d, n - w)

\* the exponent e with 2^e <= a / b < 2^(e + 1), for a, b >= 1
RECURSIVE quotient_exp(_, _)
quotient_exp(a, b) ==
  IF a < b THEN quotient_exp(2 * a, b) - 1
  ELSE IF a >= 2 * b THEN quotient_exp(a, 2 * b) + 1
  ELSE 0

\* a / b of two ints, a >= 0 and b >= 1 (int.__truediv__)
float_div(a, b) ==
  IF a = 0 THEN FloatZero
  ELSE LET e == quotient_exp(a, b)
           n == IF e < 0 THEN a * Pow2(0 - e) ELSE a
           d == IF e > 0 THEN b * Pow2(e) ELSE b
           \* one bit before the point, MantissaBits after it: the guard bit
           \* is the last one, the remainder is the sticky part
           bits == <<1>> \o quotient_bits(n - d, d, MantissaBits)
           rem  == quotient_rem(n - d, d, MantissaBits)
       IN  float_round(bits, e, rem # 0)

\* x * n for a float x and a small int n >= 1 (float.__mul__, n is exact)
float_mul_int(x, n) ==
  IF x.zero THEN FloatZero
  ELSE LET bits == bits_mul_small(x.m, n, 0)
       IN  float_round(bits, x.e + (Len(bits) - MantissaBits), FALSE)

\* int(x): truncation toward zero, x >= 0
float_to_int(x) ==
  IF x.zero \/ x.e < 0 THEN 0
  ELSE bits_to_int(SubSeq(x.m, 1, x.e + 1))

\* a slip: the factor 100 is lost
percentage_unscaled(found_weight, total_weight) ==
  float_to_int(float_div(found_weight, total_weight))

\* int((found_weight / total_weight) * 100)
percentage(found_weight, total_weight) ==
  float_to_int(float_mul_int(float_div(found_weight, total_weight), 100))

\* ------------------------------------------------------------------------
\* KeywordMatcher.calculate_score: the weights
\* ------------------------------------------------------------------------
\* {kw.lower().strip() for kw in double_weight_keywords}
double_weight_set_of(dw) == {str_strip(str_lower(dw[i])) : i \in 1..Len(dw)}

\* a slip: "kw in double_weight_set", the keyword is compared as written
keyword_weight_raw(kw, dwset) == IF kw \in dwset THEN 2 ELSE 1

\* 2 points for a double-weight keyword, 1 point for a regular one
keyword_weight(kw, dwset) ==
  IF str_strip(str_lower(kw)) \in dwset THEN 2 ELSE 1

\* the loop "for kw in all_keywords: total_weight += ..." over [i..]
RECURSIVE total_weight_from(_, _, _)
total_weight_from(all_keywords, dwset, i) ==
  IF i > Len(all_keywords) THEN 0
  ELSE keyword_weight(all_keywords[i], dwset)
         + total_weight_from(all_keywords, dwset, i + 1)

total_weight_of(all_keywords, dwset) == total_weight_from(all_keywords, dwset, 1)

\* the loop "for kw in found_keywords: found_weight += ..." over [i..]
RECURSIVE found_weight_from(_, _, _)
found_weight_from(found_keywords, dwset, i) ==
  IF i > Len(found_keywords) THEN 0
  ELSE keyword_weight(found_keywords[i], dwset)
         + found_weight_from(found_keywords, dwset, i + 1)

\* a slip: every found keyword counts 2 points
found_weight_all_double(found_keywords, dwset) == 2 * Len(found_keywords)

\* a slip: every found keyword counts 1 point
found_weight_all_single(found_keywords, dwset) == Len(found_keywords)

found_weight_of(found_keywords, dwset) ==
  found_weight_from(found_keywords, dwset, 1)

\* a slip: the guard is lost
returns_early_never(all_keywords) == FALSE

\* "if len(all_keywords) == 0: return 0"
returns_early(all_keywords) == Len(all_keywords) = 0

\* the value calculate_score returns when total_weight is not zero
calculate_score(found_keywords, all_keywords, dw) ==
  IF returns_early(all_keywords) THEN 0
  ELSE LET dwset == double_weight_set_of(dw)
       IN  percentage(found_weight_of(found_keywords, dwset),
                      total_weight_of(all_keywords, dwset))

\* ------------------------------------------------------------------------
\* Inputs of the calls
\* ------------------------------------------------------------------------
kTowerCrane == <<"t","o","w","e","r"," ","c","r","a","n","e">>

kBoxes == <<"B","o","x","e","s">>

kBoxSp == <<" ","b","o","x">>

kEmpty == <<>>

kBlank == <<" ">>

kBOXES == <<"B","O","X","E","S"," ">>

Keywords == {kTowerCrane, kBoxes, kBoxSp, kEmpty, kBlank}

Texts ==
  { <<"T","o","w","e","r"," ","\t","c","r","a","n","e","s","\n">>,
    <<"a"," ","b","o","x">>,
    <<>> }

DoubleWeights == {kBOXES, kTowerCrane}

ScoreKeywords == {kBoxes, kTowerCrane}

NormChars == {"a", "A", " ", "\t"}

SeqsUpTo(S, n) == UNION {[1..k -> S] : k \in 0..n}

Repeat(k, n) == [i \in 1..n |-> k]

KeywordLists == SeqsUpTo(Keywords, MaxKeywords)

DoubleWeightLists == SeqsUpTo(DoubleWeights, MaxDoubleWeight)

ScoreLists ==
  {Repeat(kBoxes, n) : n \in 0..MaxRepeat} \cup SeqsUpTo(ScoreKeywords, MaxShort)

ScoreDoubleWeightLists == {<<>>, <<kBOXES>>}

Strings == SeqsUpTo(NormChars, MaxStrLen)

tABox == <<"a"," ","b","o","x">>

kTowerTabCrane == <<"T","o","w","e","r"," ","\t","c","r","a","n","e">>

kCpp == <<"c","+","+">>

PhraseKeywords == {kTowerCrane, kTowerTabCrane, kCpp, kBoxes}

PhraseTexts ==
  { <<"T","o","w","e","r"," ","\t","c","r","a","n","e","s","\n">>,
    <<"t","o","w","e","r","s"," ","c","r","a","n","e">>,
    <<"a"," ","t","o","w","e","r"," ","c","r","a","n","e">>,
    <<"a"," ","B","O","X"," "," ","c","+","+">>,
    <<"c","+","+","a">> }

PhraseKeywordLists == SeqsUpTo(PhraseKeywords, MaxPhraseKeywords)

PhraseDoubleWeightLists == {<<>>, <<kTowerCrane>>}

\* arguments of the concurrent calls
ConcurrentTexts ==
  { <<"a"," ","b","o","x">>,
    <<"T","o","w","e","r"," ","\t","c","r","a","n","e","s","\n">> }

ConcurrentKeywordLists == {<<kBoxes, kTowerCrane>>}

ConcurrentDoubleWeightLists == {<<>>, <<kBoxes>>}

Invocations == 1..MaxInvocations

\* job profiles: the id and, standing for the other fields, the name
ProfileIds == {"d1", "p1", "p2"}

\* the profiles sent in requests
Profiles ==
  { [id |-> "p1", name |-> "n1"], [id |-> "p1", name |-> "n2"],
    [id |-> "p2", name |-> "n1"], [id |-> "d1", name |-> "n2"] }

\* a non-empty DEFAULT_JOB_PROFILES
BuiltInProfiles == << [id |-> "d1", name |-> "n1"] >>

\* what can happen to the write of the storage file
SaveOutcomes == {"saved", "not_opened", "partial"}

fAPdf == <<"A",".","p","d","f">>

fBDocx == <<"b",".","d","o","c","x">>

fCTxt == <<"c",".","t","x","t">>

\* "box box box ...", n characters long, ending in a letter
BoxText(n) ==
  [i \in 1..n |-> IF i = n /\ i % 4 = 0 THEN "x"
                  ELSE <<"b","o","x"," ">>[((i - 1) % 4) + 1]]

\* "Tower cranes a a a ...", n characters long, ending in a letter
TowerText(n) ==
  [i \in 1..n |->
     IF i <= 12 THEN <<"T","o","w","e","r"," ","c","r","a","n","e","s">>[i]
     ELSE IF i = n \/ i % 2 = 0 THEN "a" ELSE " "]

\* uploaded files: the name and what the PDF / DOCX library extracts from the
\* content
UploadFiles ==
  { [filename |-> fAPdf,  text |-> BoxText(MIN_TEXT_LENGTH)],
    [filename |-> fBDocx, text |-> TowerText(MIN_TEXT_LENGTH - 1)],
    [filename |-> fCTxt,  text |-> <<"a"," ","b","o","x">>] }

FileLists == SeqsUpTo(UploadFiles, MaxFiles) \ {<<>>}

\* the keywords form field, parsed: a JSON array or something else
KeywordForms ==
  { [is_list |-> TRUE,  items |-> <<kBoxes, kTowerCrane>>],
    [is_list |-> TRUE,  items |-> <<kEmpty>>],
    [is_list |-> TRUE,  items |-> <<>>],
    [is_list |-> FALSE, items |-> <<>>] }

FilterDoubleWeightLists == {<<>>, <<kBoxes>>}

\* the min_score form field: absent (None) or an integer
MinScores == {<<>>, <<0>>, <<51>>}

WordLetters == {"a", "c", "e", "f", "h", "i", "s", "v", "x", "y", "z"}

wCranes == <<"c","r","a","n","e","s">>

wKnife == <<"k","n","i","f","e">>

\* normalized single-token words
Words == SeqsUpTo(WordLetters, MaxWordLen) \cup {wCranes, wKnife}

\* ------------------------------------------------------------------------
\* State
\* ------------------------------------------------------------------------
VARIABLES
  pc,                      \* "idle", "find", "score", "divide", "done", "raised"
  op,                      \* the entry point of the running call
  text,                    \* argument text
  keywords,                \* argument keywords / all_keywords
  double_weight_keywords,  \* argument double_weight_keywords
  normalized_text,         \* local of find_keywords, result of normalize_text
  idx,                     \* position of the loop "for keyword in keywords"
  found,                   \* local found / argument found_keywords
  missing,                 \* local missing
  total_weight,            \* local of calculate_score
  found_weight,            \* local of calculate_score
  score                    \* returned score

\* the state of one call of the engine
engine_vars == <<pc, op, text, keywords, double_weight_keywords,
                 normalized_text, idx, found, missing, total_weight,
                 found_weight, score>>

VARIABLES
  variations               \* the set get_word_variations returns

VARIABLES
  invocations              \* the locals of each concurrent analyze_resume call

concurrent_vars == <<invocations>>

VARIABLES
  default_profiles,        \* JobProfilesManager.default_profiles
  custom_profiles,         \* JobProfilesManager.custom_profiles
  storage_file,            \* the file at JobProfilesManager.storage_file
  response                 \* the last request to /api/job-profiles, answered

manager_vars == <<default_profiles, custom_profiles, storage_file>>

VARIABLES
  settings,                \* config.settings
  resume_storage,          \* main.resume_storage: filename -> content
  filter_call,             \* the filter_resumes request in progress
  filter_response,         \* what filter_resumes returned
  ai_calls                 \* the resumes sent to the AI summary service

filter_vars == <<settings, resume_storage, filter_call, filter_response,
                 ai_calls>>

\* the state outside KeywordMatcher called sequentially
beyond_matcher == <<concurrent_vars, manager_vars, response, filter_vars>>

\* the state outside the calls of analyze_resume, calculate_score and
\* normalize_text
outside_engine == <<variations, beyond_matcher>>

vars == <<engine_vars, outside_engine>>

InitEngine ==
  /\ pc = "idle"
  /\ op = "none"
  /\ text = <<>>
  /\ keywords = <<>>
  /\ double_weight_keywords = <<>>
  /\ normalized_text = <<>>
  /\ idx = 0
  /\ found = <<>>
  /\ missing = <<>>
  /\ total_weight = 0
  /\ found_weight = 0
  /\ score = 0

\* the locals of a call that has not started
NotCalled ==
  [pc |-> "idle", text |-> <<>>, keywords |-> <<>>,
   double_weight_keywords |-> <<>>, normalized_text |-> <<>>, idx |-> 0,
   patterns |-> {}, found |-> <<>>, missing |-> <<>>, score |-> 0]

InitConcurrent == invocations = [i \in Invocations |-> NotCalled]

\* a dict with no keys
EmptyDict == [k \in {} |-> k]

\* no storage file
NoFile == [state |-> "absent", data |-> EmptyDict]

\* no request answered yet
NoResponse ==
  [endpoint |-> "none", profile_id |-> "none", target |-> "none",
   raised |-> "none", status_code |-> 0]

\* profile.model_dump(): the JSON object of the fields
model_dump(profile) == [id |-> profile.id, name |-> profile.name]

\* JobProfile(**profile_data)
JobProfile(profile_data) == [id |-> profile_data.id, name |-> profile_data.name]

\* "if self.storage_file.exists(): try: json.load ... except: {} else: {}"
load_custom_profiles(file) ==
  IF file.state = "json"
  THEN [profile_id \in DOMAIN file.data |-> JobProfile(file.data[profile_id])]
  ELSE EmptyDict

\* JobProfilesManager.__init__ with no storage file yet
JobProfilesManager_init(defaults) ==
  /\ default_profiles = defaults
  /\ storage_file = NoFile
  /\ custom_profiles = load_custom_profiles(NoFile)
  /\ response = NoResponse

InitMatcher ==
  /\ InitEngine
  /\ variations = {}
  /\ InitConcurrent

\* no filter_resumes request in progress
NoFilterCall ==
  [pc |-> "idle", files |-> <<>>, keywords |-> <<>>,
   double_weight_keywords |-> <<>>, min_score |-> <<>>,
   generate_ai_summary |-> FALSE, threshold |-> 0, idx |-> 0,
   all_analyses |-> <<>>]

\* nothing returned
NoFilterResponse ==
  [status_code |-> 0, total_resumes |-> 0, valid_candidates |-> 0,
   rejected_candidates |-> 0, candidates |-> <<>>]

\* main.py and config.py loaded: "resume_storage = {}", "settings = Settings()"
main_loaded(use_openai) ==
  /\ settings = [min_keyword_score |-> MIN_KEYWORD_SCORE,
                 use_openai |-> use_openai]
  /\ resume_storage = EmptyDict
  /\ filter_call = NoFilterCall
  /\ filter_response = NoFilterResponse
  /\ ai_calls = <<>>

\* DEFAULT_JOB_PROFILES as shipped is the empty list, USE_OPENAI defaults to
\* true
Init ==
  /\ InitMatcher
  /\ JobProfilesManager_init(<<>>)
  /\ main_loaded(TRUE)

\* the manager over an empty and over a non-empty DEFAULT_JOB_PROFILES
InitManager ==
  /\ InitMatcher
  /\ \E defaults \in {<<>>, BuiltInProfiles} : JobProfilesManager_init(defaults)
  /\ main_loaded(TRUE)

\* the server with USE_OPENAI set either way
InitFilter ==
  /\ InitMatcher
  /\ JobProfilesManager_init(<<>>)
  /\ \E use_openai \in BOOLEAN : main_loaded(use_openai)

\* ------------------------------------------------------------------------
\* KeywordMatcher.normalize_text called on its own
\* ------------------------------------------------------------------------
normalize_text_call ==
  /\ pc = "idle"
  /\ UNCHANGED outside_engine
  /\ \E s \in Strings :
       /\ text' = s
       /\ normalized_text' = normalize_text(s)
  /\ op' = "normalize_text"
  /\ pc' = "done"
  /\ UNCHANGED <<keywords, double_weight_keywords, idx, found, missing,
                 total_weight, found_weight, score>>

\* ------------------------------------------------------------------------
\* KeywordMatcher.get_word_variations called on its own
\* ------------------------------------------------------------------------
get_word_variations_call ==
  /\ pc = "idle"
  /\ \E w \in Words :
       /\ text' = w
       /\ variations' = get_word_variations(w)
  /\ op' = "get_word_variations"
  /\ pc' = "done"
  /\ UNCHANGED beyond_matcher
  /\ UNCHANGED <<keywords, double_weight_keywords, normalized_text, idx,
                 found, missing, total_weight, found_weight, score>>

\* ------------------------------------------------------------------------
\* KeywordMatcher.analyze_resume: entry, up to the first statement of the
\* loop of find_keywords
\* ------------------------------------------------------------------------
analyze_resume_call ==
  /\ pc = "idle"
  /\ UNCHANGED outside_engine
  /\ \E t \in Texts, ks \in KeywordLists, dw \in DoubleWeightLists :
       /\ text' = t
       /\ keywords' = ks
       /\ double_weight_keywords' = dw
       /\ normalized_text' = normalize_text(t)
  /\ op' = "analyze_resume"
  /\ found' = <<>>
  /\ missing' = <<>>
  /\ idx' = 1
  /\ pc' = "find"
  /\ UNCHANGED <<total_weight, found_weight, score>>

\* the same entry for phrases and keywords with non-word characters
analyze_resume_call_phrases ==
  /\ pc = "idle"
  /\ UNCHANGED outside_engine
  /\ \E t \in PhraseTexts, ks \in PhraseKeywordLists,
        dw \in PhraseDoubleWeightLists :
       /\ text' = t
       /\ keywords' = ks
       /\ double_weight_keywords' = dw
       /\ normalized_text' = normalize_text(t)
  /\ op' = "analyze_resume"
  /\ found' = <<>>
  /\ missing' = <<>>
  /\ idx' = 1
  /\ pc' = "find"
  /\ UNCHANGED <<total_weight, found_weight, score>>

\* some pattern of the keyword matches the normalized text
keyword_found(patterns, ntext) ==
  \E pattern \in patterns : re_search(pattern, ntext)

\* a slip: the else is lost, a found keyword lands in both lists
classify_both(fnd, mis, keyword, hit) ==
  IF hit THEN <<Append(fnd, keyword), Append(mis, keyword)>>
  ELSE <<fnd, Append(mis, keyword)>>

\* a slip: insert(0, keyword) instead of append(keyword)
classify_prepend(fnd, mis, keyword, hit) ==
  IF hit THEN <<(<<keyword>> \o fnd), mis>> ELSE <<fnd, (<<keyword>> \o mis)>>

\* "if keyword_found: found.append(keyword) else: missing.append(keyword)":
\* the new <<found, missing>>
classify(fnd, mis, keyword, hit) ==
  IF hit THEN <<Append(fnd, keyword), mis>> ELSE <<fnd, Append(mis, keyword)>>

\* a slip: the patterns are built from the keyword as the caller wrote it
keyword_patterns_raw(keyword) == generate_phrase_patterns(keyword)

\* "normalized_keyword = normalize_text(keyword);
\*  patterns = generate_phrase_patterns(normalized_keyword)"
keyword_patterns(keyword) == generate_phrase_patterns(normalize_text(keyword))

\* find_keywords as a function: the loop over kws[i..] with the lists so far
RECURSIVE find_keywords_from(_, _, _, _, _)
find_keywords_from(ntext, kws, i, fnd, mis) ==
  IF i > Len(kws)
  THEN [raised |-> FALSE, found |-> fnd, missing |-> mis]
  ELSE LET gen == keyword_patterns(kws[i])
       IN  IF gen.raised
           THEN [raised |-> TRUE, found |-> <<>>, missing |-> <<>>]
           ELSE LET res == classify(fnd, mis, kws[i],
                                    keyword_found(gen.patterns, ntext))
                IN  find_keywords_from(ntext, kws, i + 1, res[1], res[2])

find_keywords(txt, kws) ==
  find_keywords_from(normalize_text(txt), kws, 1, <<>>, <<>>)

\* analyze_resume as a function: raised, or found, missing and score
analyze_resume(txt, kws, dw) ==
  LET res == find_keywords(txt, kws)
  IN  [raised  |-> res.raised,
       found   |-> res.found,
       missing |-> res.missing,
       score   |-> IF res.raised THEN 0
                   ELSE calculate_score(res.found, kws, dw)]

\* one iteration of "for keyword in keywords"
find_keywords_step ==
  /\ pc = "find"
  /\ UNCHANGED outside_engine
  /\ idx <= Len(keywords)
  /\ LET keyword == keywords[idx]
         gen == keyword_patterns(keyword)
     IN  IF gen.raised
         THEN /\ pc' = "raised"
              /\ UNCHANGED <<idx, found, missing>>
         ELSE /\ pc' = "find"
              /\ idx' = idx + 1
              /\ LET hit == keyword_found(gen.patterns, normalized_text)
                     res == classify(found, missing, keyword, hit)
                 IN  /\ found' = res[1]
                     /\ missing' = res[2]
  /\ UNCHANGED <<op, text, keywords, double_weight_keywords, normalized_text,
                 total_weight, found_weight, score>>

\* find_keywords returns; analyze_resume calls calculate_score(found,
\* keywords, double_weight_keywords)
find_keywords_return ==
  /\ pc = "find"
  /\ UNCHANGED outside_engine
  /\ idx > Len(keywords)
  /\ pc' = "score"
  /\ UNCHANGED <<op, text, keywords, double_weight_keywords, normalized_text,
                 idx, found, missing, total_weight, found_weight, score>>

\* ------------------------------------------------------------------------
\* KeywordMatcher.calculate_score
\* ------------------------------------------------------------------------
\* a direct call with any found_keywords and all_keywords
calculate_score_call ==
  /\ pc = "idle"
  /\ UNCHANGED outside_engine
  /\ \E f \in ScoreLists, a \in ScoreLists, dw \in ScoreDoubleWeightLists :
       /\ found' = f
       /\ keywords' = a
       /\ double_weight_keywords' = dw
  /\ op' = "calculate_score"
  /\ pc' = "score"
  /\ UNCHANGED <<text, normalized_text, idx, missing, total_weight,
                 found_weight, score>>

\* up to the division: the early return or the two weight loops
calculate_score_weights ==
  /\ pc = "score"
  /\ UNCHANGED outside_engine
  /\ IF returns_early(keywords)
     THEN /\ score' = 0
          /\ pc' = "done"
          /\ UNCHANGED <<total_weight, found_weight>>
     ELSE LET dwset == double_weight_set_of(double_weight_keywords)
          IN  /\ total_weight' = total_weight_of(keywords, dwset)
              /\ found_weight' = found_weight_of(found, dwset)
              /\ pc' = "divide"
              /\ UNCHANGED score
  /\ UNCHANGED <<op, text, keywords, double_weight_keywords, normalized_text,
                 idx, found, missing>>

\* "score = (found_weight / total_weight) * 100; return int(score)";
\* a zero total_weight raises ZeroDivisionError
calculate_score_divide ==
  /\ pc = "divide"
  /\ UNCHANGED outside_engine
  /\ IF total_weight = 0
     THEN pc' = "raised" /\ UNCHANGED score
     ELSE pc' = "done" /\ score' = percentage(found_weight, total_weight)
  /\ UNCHANGED <<op, text, keywords, double_weight_keywords, normalized_text,
                 idx, found, missing, total_weight, found_weight>>

\* the call is over (returned or raised); the next call starts afresh
call_return ==
  /\ pc \in {"done", "raised"}
  /\ variations' = {}
  /\ UNCHANGED beyond_matcher
  /\ pc' = "idle"
  /\ op' = "none"
  /\ text' = <<>>
  /\ keywords' = <<>>
  /\ double_weight_keywords' = <<>>
  /\ normalized_text' = <<>>
  /\ idx' = 0
  /\ found' = <<>>
  /\ missing' = <<>>
  /\ total_weight' = 0
  /\ found_weight' = 0
  /\ score' = 0

\* ------------------------------------------------------------------------
\* KeywordMatcher.analyze_resume called concurrently: the methods are static
\* and keep everything in locals, so a call is its own record; the steps of
\* the calls interleave at every keyword and at every pattern
\* ------------------------------------------------------------------------
\* entry, up to the first statement of the loop of find_keywords
concurrent_call(i) ==
  /\ invocations[i].pc = "idle"
  /\ \E t \in ConcurrentTexts, ks \in ConcurrentKeywordLists,
        dw \in ConcurrentDoubleWeightLists :
       invocations' =
         [invocations EXCEPT ![i] =
            [NotCalled EXCEPT !.pc = "find", !.text = t, !.keywords = ks,
                              !.double_weight_keywords = dw,
                              !.normalized_text = normalize_text(t),
                              !.idx = 1]]
  /\ UNCHANGED <<engine_vars, variations, manager_vars, response,
                 filter_vars>>

\* "for keyword in keywords": the patterns of the next keyword, or the end
\* of the loop
concurrent_next_keyword(i) ==
  LET call == invocations[i]
  IN  /\ call.pc = "find"
      /\ IF call.idx > Len(call.keywords)
         THEN invocations' = [invocations EXCEPT ![i].pc = "score"]
         ELSE LET gen == keyword_patterns(call.keywords[call.idx])
              IN  invocations' =
                    [invocations EXCEPT
                       ![i].pc = IF gen.raised THEN "raised" ELSE "patterns",
                       ![i].patterns = gen.patterns]
      /\ UNCHANGED <<engine_vars, variations, manager_vars, response,
                     filter_vars>>

\* a slip: the loop over the patterns stops at the first pattern tried
patterns_left_none(patterns, pattern) == {}

\* the patterns still to try after "pattern" did not match
patterns_left(patterns, pattern) == patterns \ {pattern}

\* "for pattern in patterns: if re.search(...): keyword_found = True; break":
\* one pattern, in whatever order the list built from the set has
concurrent_try_pattern(i) ==
  LET call == invocations[i]
      keyword == call.keywords[call.idx]
  IN  /\ call.pc = "patterns"
      /\ IF call.patterns = {}
         THEN invocations' =
                [invocations EXCEPT
                   ![i].pc = "find",
                   ![i].idx = call.idx + 1,
                   ![i].missing =
                     classify(call.found, call.missing, keyword, FALSE)[2]]
         ELSE \E pattern \in call.patterns :
                IF re_search(pattern, call.normalized_text)
                THEN invocations' =
                       [invocations EXCEPT
                          ![i].pc = "find",
                          ![i].idx = call.idx + 1,
                          ![i].patterns = {},
                          ![i].found =
                            classify(call.found, call.missing, keyword,
                                     TRUE)[1]]
                ELSE invocations' =
                       [invocations EXCEPT
                          ![i].patterns =
                            patterns_left(call.patterns, pattern)]
      /\ UNCHANGED <<engine_vars, variations, manager_vars, response,
                     filter_vars>>

\* "score = calculate_score(found, keywords, double_weight_keywords)"
concurrent_calculate_score(i) ==
  LET call == invocations[i]
  IN  /\ call.pc = "score"
      /\ invocations' =
           [invocations EXCEPT
              ![i].pc = "done",
              ![i].score = calculate_score(call.found, call.keywords,
                                           call.double_weight_keywords)]
      /\ UNCHANGED <<engine_vars, variations, manager_vars, response,
                     filter_vars>>

\* the caller takes the result; the locals are gone
concurrent_return(i) ==
  /\ invocations[i].pc \in {"done", "raised"}
  /\ invocations' = [invocations EXCEPT ![i] = NotCalled]
  /\ UNCHANGED <<engine_vars, variations, manager_vars, response,
                 filter_vars>>

\* ------------------------------------------------------------------------
\* JobProfilesManager
\* ------------------------------------------------------------------------
\* the ids of the default profiles
default_ids == {default_profiles[i].id : i \in DOMAIN default_profiles}

\* "any(p.id == profile_id for p in self.default_profiles)"
is_default_profile(profile_id) == profile_id \in default_ids

\* get_profile_by_id found nothing
None == [id |-> "None", name |-> "None"]

\* list(d.values()), in one order of the keys
dict_values(d) ==
  LET n == Cardinality(DOMAIN d)
      key_order == CHOOSE seq \in [1..n -> DOMAIN d] :
                     {seq[i] : i \in 1..n} = DOMAIN d
  IN  [i \in 1..n |-> d[key_order[i]]]

\* JobProfilesManager.get_all_profiles
get_all_profiles == default_profiles \o dict_values(custom_profiles)

\* JobProfilesManager.get_profile_by_id
get_profile_by_id(profile_id) ==
  IF is_default_profile(profile_id)
  THEN default_profiles[CHOOSE i \in DOMAIN default_profiles :
                          /\ default_profiles[i].id = profile_id
                          /\ \A j \in 1..(i - 1) :
                               default_profiles[j].id # profile_id]
  ELSE IF profile_id \in DOMAIN custom_profiles
  THEN custom_profiles[profile_id]
  ELSE None

\* d[key] = value
dict_set(d, key, value) ==
  [k \in DOMAIN d \cup {key} |-> IF k = key THEN value ELSE d[k]]

\* del d[key]
dict_del(d, key) == [k \in DOMAIN d \ {key} |-> d[k]]

\* _save_custom_profiles: the file after the call and whether it raised;
\* mkdir or open may fail before the file is touched, json.dump may fail after
\* open(.., "w") has truncated it
save_custom_profiles(custom, file, io) ==
  IF io = "saved"
  THEN [raised |-> "none",
        file |-> [state |-> "json",
                  data |-> [profile_id \in DOMAIN custom |->
                              model_dump(custom[profile_id])]]]
  ELSE IF io = "not_opened"
  THEN [raised |-> "OSError", file |-> file]
  ELSE [raised |-> "OSError",
        file |-> [state |-> "corrupt", data |-> EmptyDict]]

\* the outcome of a method that raised before changing anything
raised_unchanged(exception) ==
  [raised |-> exception, returned |-> "none",
   custom_profiles |-> custom_profiles, storage_file |-> storage_file]

\* a slip: the file is written before custom_profiles is changed
changed_and_saved_stale(custom, returned, io) ==
  LET save == save_custom_profiles(custom_profiles, storage_file, io)
  IN  [raised |-> save.raised,
       returned |-> IF save.raised = "none" THEN returned ELSE "none",
       custom_profiles |-> custom, storage_file |-> save.file]

\* the outcome of a method that changed custom_profiles and saved
changed_and_saved(custom, returned, io) ==
  LET save == save_custom_profiles(custom, storage_file, io)
  IN  [raised |-> save.raised,
       returned |-> IF save.raised = "none" THEN returned ELSE "none",
       custom_profiles |-> custom, storage_file |-> save.file]

\* a slip: the check against the default profiles is lost
add_custom_profile_unchecked(profile, io) ==
  changed_and_saved(dict_set(custom_profiles, profile.id, profile),
                    "profile", io)

\* JobProfilesManager.add_custom_profile
add_custom_profile(profile, io) ==
  IF is_default_profile(profile.id)
  THEN raised_unchanged("ValueError")
  ELSE changed_and_saved(dict_set(custom_profiles, profile.id, profile),
                         "profile", io)

\* JobProfilesManager.update_custom_profile
update_custom_profile(profile_id, profile, io) ==
  IF is_default_profile(profile_id)
  THEN raised_unchanged("ValueError")
  ELSE IF profile_id \notin DOMAIN custom_profiles
  THEN [raised_unchanged("none") EXCEPT !.returned = "None"]
  ELSE changed_and_saved(dict_set(custom_profiles, profile_id, profile),
                         "profile", io)

\* JobProfilesManager.delete_custom_profile
delete_custom_profile(profile_id, io) ==
  IF is_default_profile(profile_id)
  THEN raised_unchanged("ValueError")
  ELSE IF profile_id \notin DOMAIN custom_profiles
  THEN [raised_unchanged("none") EXCEPT !.returned = "False"]
  ELSE changed_and_saved(dict_del(custom_profiles, profile_id), "True", io)

\* ------------------------------------------------------------------------
\* The /api/job-profiles endpoints of main.py
\* ------------------------------------------------------------------------
\* the exception classes in play and their base classes
BaseClasses(class) ==
  IF class = "none" THEN {} ELSE {class, "Exception"}

\* whether "except <class>" catches the exception
catches(class, exception) == class \in BaseClasses(exception)

\* what profile_id names when the request arrives
target_of(profile_id) ==
  IF is_default_profile(profile_id) THEN "default"
  ELSE IF profile_id \in DOMAIN custom_profiles THEN "custom"
  ELSE "unknown"

\* the exception leaving the try block of the PUT and DELETE handlers: the
\* manager's, or the HTTPException(404) raised on a None / False result
raised_in_try(outcome) ==
  IF outcome.raised # "none" THEN outcome.raised
  ELSE IF outcome.returned \in {"None", "False"} THEN "HTTPException"
  ELSE "none"

\* "except ValueError: raise HTTPException(on_value_error); except Exception:
\* raise HTTPException(500)", 200 when nothing was raised
status_of(exception, on_value_error) ==
  IF exception = "none" THEN 200
  ELSE IF catches("ValueError", exception) THEN on_value_error
  ELSE IF catches("Exception", exception) THEN 500
  ELSE 0

\* the request and its answer, for the record
answered(endpoint, profile_id, outcome, status_code) ==
  [endpoint |-> endpoint, profile_id |-> profile_id,
   target |-> target_of(profile_id),
   raised |-> outcome.raised, status_code |-> status_code]

\* what no job-profile endpoint touches
outside_manager == <<default_profiles, engine_vars, variations,
                     concurrent_vars, filter_vars>>

\* room for the profile under the cap on custom profiles
room_for(profile_id) ==
  \/ profile_id \in DOMAIN custom_profiles
  \/ Cardinality(DOMAIN custom_profiles) < MaxCustomProfiles

\* POST /api/job-profiles
api_create_custom_profile ==
  \E profile \in Profiles, io \in SaveOutcomes :
    /\ room_for(profile.id)
    /\ LET outcome == add_custom_profile(profile, io)
       IN  /\ custom_profiles' = outcome.custom_profiles
           /\ storage_file' = outcome.storage_file
           /\ response' = answered("POST", profile.id, outcome,
                                   status_of(outcome.raised, 400))
    /\ UNCHANGED outside_manager

\* PUT /api/job-profiles/{profile_id}
api_update_custom_profile ==
  \E profile_id \in ProfileIds, profile \in Profiles, io \in SaveOutcomes :
    /\ LET outcome == update_custom_profile(profile_id, profile, io)
       IN  /\ custom_profiles' = outcome.custom_profiles
           /\ storage_file' = outcome.storage_file
           /\ response' = answered("PUT", profile_id, outcome,
                                   status_of(raised_in_try(outcome), 403))
    /\ UNCHANGED outside_manager

\* DELETE /api/job-profiles/{profile_id}
api_delete_custom_profile ==
  \E profile_id \in ProfileIds, io \in SaveOutcomes :
    /\ LET outcome == delete_custom_profile(profile_id, io)
       IN  /\ custom_profiles' = outcome.custom_profiles
           /\ storage_file' = outcome.storage_file
           /\ response' = answered("DELETE", profile_id, outcome,
                                   status_of(raised_in_try(outcome), 403))
    /\ UNCHANGED outside_manager

\* the server is started again: "profiles_manager = JobProfilesManager(...)"
\* on the file as it is
server_restart ==
  /\ custom_profiles' = load_custom_profiles(storage_file)
  /\ response' = NoResponse
  /\ UNCHANGED <<storage_file, outside_manager>>

\* ------------------------------------------------------------------------
\* POST /api/filter-resumes
\* ------------------------------------------------------------------------
\* "filename.lower().endswith(extension)"
has_extension(filename, extension) == endswith(str_lower(filename), extension)

\* ResumeParser.parse_resume: raised, or the text and is_image_based
parse_resume(file) ==
  IF \/ has_extension(file.filename, <<".","p","d","f">>)
     \/ has_extension(file.filename, <<".","d","o","c","x">>)
  THEN [raised |-> FALSE, text |-> file.text,
        is_image_based |-> Len(file.text) < MIN_TEXT_LENGTH]
  ELSE [raised |-> TRUE, text |-> <<>>, is_image_based |-> FALSE]

\* a slip: "min_score or settings.min_keyword_score"
threshold_of_truthy(min_score) ==
  IF min_score # <<>> /\ min_score[1] # 0 THEN min_score[1]
  ELSE settings.min_keyword_score

\* "min_score if min_score is not None else settings.min_keyword_score"
threshold_of(min_score) ==
  IF min_score # <<>> THEN min_score[1] ELSE settings.min_keyword_score

\* a slip: a file that cannot be parsed is counted, with nothing found
process_file_counted(file, kws, dw, analyses) ==
  LET parsed == parse_resume(file)
      res == analyze_resume(parsed.text, kws, dw)
  IN  IF res.raised THEN analyses
      ELSE Append(analyses,
                  [filename |-> file.filename,
                   text_content |-> parsed.text,
                   keywords_found |-> res.found,
                   keywords_missing |-> res.missing,
                   score |-> res.score,
                   is_image_based |-> parsed.is_image_based,
                   ai_summary |-> FALSE])

\* the body of "for file in files": all_analyses after the file
process_file(file, kws, dw, analyses) ==
  LET parsed == parse_resume(file)
  IN  IF parsed.raised THEN analyses
      ELSE LET res == analyze_resume(parsed.text, kws, dw)
           IN  IF res.raised THEN analyses
               ELSE Append(analyses,
                           [filename |-> file.filename,
                            text_content |-> parsed.text,
                            keywords_found |-> res.found,
                            keywords_missing |-> res.missing,
                            score |-> res.score,
                            is_image_based |-> parsed.is_image_based,
                            ai_summary |-> FALSE])

\* "[analysis for analysis in all_analyses if analysis.score >= threshold]"
valid_candidates_of(analyses, threshold) ==
  LET passes(analysis) == analysis.score >= threshold
  IN  SelectSeq(analyses, passes)

\* a slip: the element goes in front of its equals, as an unstable sort may
insert_by_score_before(sorted, analysis) ==
  LET k == Cardinality({i \in DOMAIN sorted :
                          sorted[i].score > analysis.score})
  IN  SubSeq(sorted, 1, k) \o <<analysis>> \o SubSeq(sorted, k + 1, Len(sorted))

\* one more element into a list in descending score order, after its equals
insert_by_score(sorted, analysis) ==
  LET k == Cardinality({i \in DOMAIN sorted :
                          sorted[i].score >= analysis.score})
  IN  SubSeq(sorted, 1, k) \o <<analysis>> \o SubSeq(sorted, k + 1, Len(sorted))

\* "valid_candidates.sort(key=lambda x: x.score, reverse=True)": stable
RECURSIVE sort_by_score_from(_, _, _)
sort_by_score_from(list, i, sorted) ==
  IF i > Len(list) THEN sorted
  ELSE sort_by_score_from(list, i + 1, insert_by_score(sorted, list[i]))

sort_by_score(list) == sort_by_score_from(list, 1, <<>>)

\* a slip: "if candidate.is_image_based: continue" is lost
eligible_for_ai_all(candidates) == DOMAIN candidates

\* the positions of the candidates the AI loop does not skip
eligible_for_ai(candidates) ==
  {i \in DOMAIN candidates : ~candidates[i].is_image_based}

\* the candidates after the service answered for the first "calls" eligible
\* ones (the constructor or the mapping of an answer may raise and end the
\* loop early)
enriched(candidates, calls) ==
  [i \in DOMAIN candidates |->
     IF /\ i \in eligible_for_ai(candidates)
        /\ Cardinality({j \in eligible_for_ai(candidates) : j <= i}) <= calls
     THEN [candidates[i] EXCEPT !.ai_summary = TRUE]
     ELSE candidates[i]]

\* the file names of the enriched candidates, in order
called_for(candidates) ==
  LET called(analysis) == analysis.ai_summary
      names == SelectSeq(candidates, called)
  IN  [i \in DOMAIN names |-> names[i].filename]

\* what no step of filter_resumes touches
outside_filter == <<engine_vars, variations, concurrent_vars, manager_vars,
                    response, settings>>

\* the request arrives: the form fields are parsed and the threshold is set,
\* or the keywords are refused with 400
filter_resumes_call ==
  /\ filter_call.pc = "idle"
  /\ \E files \in FileLists, form \in KeywordForms,
        dw \in FilterDoubleWeightLists, min_score \in MinScores,
        generate_ai_summary \in BOOLEAN :
       IF ~form.is_list \/ Len(form.items) = 0
       THEN /\ filter_call' = [NoFilterCall EXCEPT !.pc = "answered"]
            /\ filter_response' = [NoFilterResponse EXCEPT !.status_code = 400]
       ELSE /\ filter_call' =
                 [pc |-> "files", files |-> files, keywords |-> form.items,
                  double_weight_keywords |-> dw, min_score |-> min_score,
                  generate_ai_summary |-> generate_ai_summary,
                  threshold |-> threshold_of(min_score), idx |-> 1,
                  all_analyses |-> <<>>]
            /\ filter_response' = filter_response
  /\ UNCHANGED <<resume_storage, ai_calls, outside_filter>>

\* one iteration of "for file in files"
filter_resumes_file ==
  /\ filter_call.pc = "files"
  /\ filter_call.idx <= Len(filter_call.files)
  /\ LET file == filter_call.files[filter_call.idx]
     IN  /\ resume_storage' = dict_set(resume_storage, file.filename, file.text)
         /\ filter_call' =
              [filter_call EXCEPT
                 !.idx = filter_call.idx + 1,
                 !.all_analyses =
                   process_file(file, filter_call.keywords,
                                filter_call.double_weight_keywords,
                                filter_call.all_analyses)]
  /\ UNCHANGED <<filter_response, ai_calls, outside_filter>>

\* after the loop: filter, sort, AI summaries, FilterResponse
filter_resumes_respond ==
  /\ filter_call.pc = "files"
  /\ filter_call.idx > Len(filter_call.files)
  /\ LET valid_candidates ==
           sort_by_score(valid_candidates_of(filter_call.all_analyses,
                                             filter_call.threshold))
         with_ai == /\ filter_call.generate_ai_summary
                    /\ valid_candidates # <<>>
                    /\ settings.use_openai
     IN  \E calls \in 0..Cardinality(eligible_for_ai(valid_candidates)) :
           LET candidates == IF with_ai THEN enriched(valid_candidates, calls)
                             ELSE valid_candidates
           IN  /\ ai_calls' = called_for(candidates)
               /\ filter_response' =
                    [status_code |-> 200,
                     total_resumes |-> Len(filter_call.all_analyses),
                     valid_candidates |-> Len(candidates),
                     rejected_candidates |->
                       Len(filter_call.all_analyses) - Len(candidates),
                     candidates |-> candidates]
  /\ filter_call' = [filter_call EXCEPT !.pc = "answered"]
  /\ UNCHANGED <<resume_storage, outside_filter>>

\* the response is sent; the locals are gone
filter_resumes_return ==
  /\ filter_call.pc = "answered"
  /\ filter_call' = NoFilterCall
  /\ filter_response' = NoFilterResponse
  /\ ai_calls' = <<>>
  /\ UNCHANGED <<resume_storage, outside_filter>>

\* ------------------------------------------------------------------------
\* Specifications
\* ------------------------------------------------------------------------
\* analyze_resume and normalize_text on the inputs above
Next ==
  \/ normalize_text_call
  \/ analyze_resume_call
  \/ find_keywords_step
  \/ find_keywords_return
  \/ calculate_score_weights
  \/ calculate_score_divide
  \/ call_return

Spec == Init /\ [][Next]_vars

\* calculate_score called directly
NextScore ==
  \/ calculate_score_call
  \/ calculate_score_weights
  \/ calculate_score_divide
  \/ call_return

SpecScore == Init /\ [][NextScore]_vars

\* analyze_resume on phrases and on keywords with non-word characters
NextPhrases ==
  \/ analyze_resume_call_phrases
  \/ find_keywords_step
  \/ find_keywords_return
  \/ calculate_score_weights
  \/ calculate_score_divide
  \/ call_return

SpecPhrases == Init /\ [][NextPhrases]_vars

\* get_word_variations called directly
NextWords ==
  \/ get_word_variations_call
  \/ call_return

SpecWords == Init /\ [][NextWords]_vars

\* analyze_resume called concurrently
NextConcurrent ==
  \E i \in Invocations :
    \/ concurrent_call(i)
    \/ concurrent_next_keyword(i)
    \/ concurrent_try_pattern(i)
    \/ concurrent_calculate_score(i)
    \/ concurrent_return(i)

SpecConcurrent == Init /\ [][NextConcurrent]_vars

\* the job-profile endpoints over JobProfilesManager
NextManager ==
  \/ api_create_custom_profile
  \/ api_update_custom_profile
  \/ api_delete_custom_profile
  \/ server_restart

SpecManager == InitManager /\ [][NextManager]_vars

\* POST /api/filter-resumes, one request at a time
NextFilter ==
  \/ filter_resumes_call
  \/ filter_resumes_file
  \/ filter_resumes_respond
  \/ filter_resumes_return

SpecFilter == InitFilter /\ [][NextFilter]_vars

\* ------------------------------------------------------------------------
\* Properties
\* ------------------------------------------------------------------------
Range(s) == {s[i] : i \in DOMAIN s}

\* the multiset of the elements of a sequence
SeqToBag(s) == [x \in Range(s) |-> Cardinality({i \in DOMAIN s : s[i] = x})]

\* s is obtained from t by deleting elements
RECURSIVE IsSubseq(_, _)
IsSubseq(s, t) ==
  IF s = <<>> THEN TRUE
  ELSE IF t = <<>> THEN FALSE
  ELSE IF Head(s) = Head(t) THEN IsSubseq(Tail(s), Tail(t))
  ELSE IsSubseq(s, Tail(t))

\* find_keywords has returned inside analyze_resume
FindReturned == op = "analyze_resume" /\ pc \in {"score", "divide", "done"}

\* the keywords the loop of find_keywords has dealt with
Processed == SubSeq(keywords, 1, idx - 1)

\* C1: found and missing partition the input keywords by position: as
\* multisets of the caller's original strings, found + missing = keywords and
\* len(found) + len(missing) = len(keywords); during the loop the same holds
\* of the keywords dealt with so far.
C1_Partition ==
  /\ (op = "analyze_resume" /\ pc = "find") =>
       /\ SeqToBag(found) (+) SeqToBag(missing) = SeqToBag(Processed)
       /\ Len(found) + Len(missing) = idx - 1
  /\ FindReturned =>
       /\ SeqToBag(found) (+) SeqToBag(missing) = SeqToBag(keywords)
       /\ Len(found) + Len(missing) = Len(keywords)

C1_Witness ==
  /\ FindReturned
  /\ Len(found) >= 1
  /\ Len(missing) >= 1
  /\ \E i \in DOMAIN keywords : normalize_text(keywords[i]) # keywords[i]

\* C2: found and missing are each a subsequence of the input keyword list.
C2_OrderPreserved ==
  FindReturned => IsSubseq(found, keywords) /\ IsSubseq(missing, keywords)

C2_Witness ==
  /\ FindReturned
  /\ Len(found) >= 2
  /\ found[1] # found[2]

\* C3: for non-empty all_keywords calculate_score returns exactly
\* floor(100 * found_weight / total_weight) in integer arithmetic; stated
\* here for the found lists that are sub-lists of all_keywords, the pairs
\* of weights analyze_resume can produce.
C3_ExactFloor ==
  (/\ op = "calculate_score"
   /\ pc = "done"
   /\ keywords # <<>>
   /\ IsSubseq(found, keywords)) =>
    score = (100 * found_weight) \div total_weight

\* C4: calculate_score returns a value in [0, 100] for all inputs, found
\* lists that are no sub-list of all_keywords included.
C4_ScoreInRange ==
  (op = "calculate_score" /\ pc = "done") => score \in 0..100

\* C5: for non-empty keywords, calculate_score([], keywords, dw) = 0 and
\* calculate_score(keywords, keywords, []) = 100.
C5_Endpoints ==
  (op = "calculate_score" /\ pc = "done" /\ keywords # <<>>) =>
    /\ found = <<>> => score = 0
    /\ (found = keywords /\ double_weight_keywords = <<>>) => score = 100

C5_Witness ==
  /\ op = "calculate_score"
  /\ pc = "done"
  /\ Len(keywords) >= 2
  /\ found = keywords
  /\ double_weight_keywords = <<>>
  /\ score = 100

\* C6: the score analyze_resume returns is in [0, 100], the found list it
\* hands to the scorer weighing no more than the keyword list.
C6_AnalyzeScoreInRange ==
  (op = "analyze_resume" /\ pc \in {"divide", "done"}) =>
    /\ keywords # <<>> => found_weight <= total_weight
    /\ score \in 0..100

C6_Witness ==
  /\ op = "analyze_resume"
  /\ pc = "done"
  /\ \E i, j \in DOMAIN keywords : i # j /\ keywords[i] = keywords[j]
  /\ double_weight_keywords # <<>>
  /\ score \in 1..99

\* C7: adding a found keyword to the double-weight list never decreases the
\* score of analyze_resume, adding a missing one never increases it.
C7_DoubleWeightMonotone ==
  (op = "analyze_resume" /\ pc = "done") =>
    /\ \A k \in Range(found) :
         calculate_score(found, keywords, Append(double_weight_keywords, k))
           >= score
    /\ \A k \in Range(missing) :
         calculate_score(found, keywords, Append(double_weight_keywords, k))
           <= score

C7_Witness ==
  /\ op = "analyze_resume"
  /\ pc = "done"
  /\ \E k \in Range(found) :
       calculate_score(found, keywords, Append(double_weight_keywords, k))
         > score
  /\ \E k \in Range(missing) :
       calculate_score(found, keywords, Append(double_weight_keywords, k))
         < score

\* C8: with no keywords analyze_resume returns found = [], missing = [] and
\* score = 0, and the division of calculate_score is only reached with
\* total_weight >= 1.
C8_EmptyKeywords ==
  /\ (op = "analyze_resume" /\ pc = "done" /\ keywords = <<>>) =>
       found = <<>> /\ missing = <<>> /\ score = 0
  /\ pc = "divide" => total_weight >= 1

C8_Witness ==
  /\ op = "analyze_resume"
  /\ pc = "done"
  /\ keywords = <<>>
  /\ text # <<>>
  /\ double_weight_keywords # <<>>

\* C9: find_keywords never raises, and a keyword that is empty after
\* normalization is reported as found.
C9_EmptyKeywordFound ==
  /\ pc # "raised"
  /\ FindReturned =>
       \A i \in DOMAIN keywords :
         normalize_text(keywords[i]) = <<>> => keywords[i] \in Range(found)

\* C10: normalize_text is idempotent: normalizing its result changes nothing.
C10_NormalizeIdempotent ==
  (op \in {"normalize_text", "analyze_resume"}) =>
    normalize_text(normalized_text) = normalized_text

C10_Witness ==
  /\ op = "normalize_text"
  /\ pc = "done"
  /\ normalized_text # text
  /\ Len(normalized_text) >= 3

\* C12: a normalized single-token word, the empty word included, is a member
\* of its own variations.
C12_BaseWordIncluded ==
  (op = "get_word_variations" /\ pc = "done") => text \in variations

C12_Witness ==
  /\ op = "get_word_variations"
  /\ pc = "done"
  /\ text = <<>>
  /\ variations = {<<>>, <<"s">>}

\* strings that differ from s in letter case, in the length or kind of the
\* whitespace runs, or in leading and trailing whitespace
UpperOf ==
  [c \in {"a","b","c","e","o","s","t","w","x"} |->
     CASE c = "a" -> "A" [] c = "b" -> "B" [] c = "c" -> "C"
       [] c = "e" -> "E" [] c = "o" -> "O" [] c = "s" -> "S"
       [] c = "t" -> "T" [] c = "w" -> "W" [] c = "x" -> "X"]

Uppercased(s) ==
  [i \in 1..Len(s) |-> IF s[i] \in DOMAIN UpperOf THEN UpperOf[s[i]] ELSE s[i]]

RECURSIVE Widened(_)
Widened(s) ==
  IF s = <<>> THEN <<>>
  ELSE IF Head(s) \in Whitespace THEN <<"\n", "\t">> \o Widened(Tail(s))
  ELSE <<Head(s)>> \o Widened(Tail(s))

Padded(s) == <<" ", "\t">> \o s \o <<"\n">>

Respellings(s) ==
  {r \in {s, Uppercased(s), Widened(s), Padded(s), Padded(Widened(Uppercased(s)))} :
     normalize_text(r) = normalize_text(s)}

\* find_keywords(txt, [keyword]) reports the keyword as found
ReportsFound(txt, keyword) == find_keywords(txt, <<keyword>>).found = <<keyword>>

\* C11: matching is case- and whitespace-insensitive: a keyword is classified
\* the same way when the text or the keyword is replaced by a string with the
\* same normalization.
C11_RespellingInsensitive ==
  FindReturned =>
    \A i \in DOMAIN keywords :
      \A t2 \in Respellings(text), k2 \in Respellings(keywords[i]) :
        ReportsFound(t2, k2) <=> (keywords[i] \in Range(found))

C11_Witness ==
  /\ FindReturned
  /\ found # <<>>
  /\ missing # <<>>
  /\ Cardinality(Respellings(text)) >= 4
  /\ \A i \in DOMAIN keywords : Cardinality(Respellings(keywords[i])) >= 4

\* the words joined by single spaces
RECURSIVE JoinPlain(_)
JoinPlain(words) ==
  IF words = <<>> THEN <<>>
  ELSE IF Len(words) = 1 THEN words[1]
  ELSE Head(words) \o <<" ">> \o JoinPlain(Tail(words))

\* str occurs in ntext after p characters
OccursAt(str, ntext, p) ==
  /\ p + Len(str) <= Len(ntext)
  /\ SubSeq(ntext, p + 1, p + Len(str)) = str

\* the phrase, its last word possibly replaced by one of its variants and
\* its other words literal, occurs in ntext between two word boundaries
PhraseOccurs(words, ntext) ==
  LET last == words[Len(words)]
      init == SubSeq(words, 1, Len(words) - 1)
  IN  \E v \in get_word_variations(last) \cup {last} :
        \E p \in 0..Len(ntext) :
          /\ OccursAt(JoinPlain(Append(init, v)), ntext, p)
          /\ is_boundary(ntext, p)
          /\ is_boundary(ntext, p + Len(JoinPlain(Append(init, v))))

tTowerCranes == <<"t","o","w","e","r"," ","c","r","a","n","e","s">>

tTowersCrane == <<"t","o","w","e","r","s"," ","c","r","a","n","e">>

VariantStrings(nk) ==
  LET words == str_split(nk)
      last  == words[Len(words)]
      init  == SubSeq(words, 1, Len(words) - 1)
  IN  {JoinPlain(Append(init, v)) : v \in get_word_variations(last) \cup {last}}

\* str occurs in ntext with no word character right before or right after it
WholeWordOccurs(str, ntext) ==
  \E p \in 0..Len(ntext) :
    /\ OccursAt(str, ntext, p)
    /\ p = 0 \/ ~IsWordChar(ntext[p])
    /\ p + Len(str) = Len(ntext) \/ ~IsWordChar(ntext[p + Len(str) + 1])

\* C14: a keyword is found if and only if one of its variant strings occurs
\* in the normalized text with no word character right before and right
\* after the occurrence, also for keywords that begin or end with a non-word
\* character.
C14_WholeWord ==
  FindReturned =>
    \A i \in DOMAIN keywords :
      (keywords[i] \in Range(found))
        <=> \E v \in VariantStrings(normalize_text(keywords[i])) :
              WholeWordOccurs(v, normalized_text)

\* C16: a keyword weighs 2 whenever it and some double-weight entry have the
\* same normalized form (lowercased, whitespace runs collapsed, trimmed).
C16_WeightByNormalizedForm ==
  (op = "analyze_resume" /\ pc \in {"divide", "done"} /\ keywords # <<>>) =>
    total_weight =
      Len(keywords) +
      Cardinality({i \in DOMAIN keywords :
                     \E j \in DOMAIN double_weight_keywords :
                       normalize_text(keywords[i])
                         = normalize_text(double_weight_keywords[j])})

\* the lowercased, trimmed form
LowerTrimmed(s) == str_strip(str_lower(s))

\* the keyword has the lowercased, trimmed form of some entry of dw
IsDoubleWeight(kw, dw) ==
  \E j \in DOMAIN dw : LowerTrimmed(kw) = LowerTrimmed(dw[j])

\* 2 for each double-weight keyword of the list and 1 for each other one
WeightSum(kws, dw) ==
  Len(kws) + Cardinality({i \in DOMAIN kws : IsDoubleWeight(kws[i], dw)})

\* the entries of dw that correspond to some keyword
UsedEntries(dw, kws) ==
  LET used(entry) == \E i \in DOMAIN kws : LowerTrimmed(kws[i]) = LowerTrimmed(entry)
  IN  SelectSeq(dw, used)

\* C15: a keyword weighs 2 iff its lowercased, trimmed form is that of some
\* double-weight entry, by the same rule in found_weight and in total_weight;
\* entries that correspond to no keyword do not change the score; three
\* keywords of which only the double-weight one is missing score 50.
C15_WeightRule ==
  /\ (op = "analyze_resume" /\ pc \in {"divide", "done"} /\ keywords # <<>>) =>
       /\ total_weight = WeightSum(keywords, double_weight_keywords)
       /\ found_weight = WeightSum(found, double_weight_keywords)
  /\ (op = "analyze_resume" /\ pc = "done") =>
       /\ score = calculate_score(found, keywords,
                                  UsedEntries(double_weight_keywords, keywords))
       /\ (/\ normalized_text = tABox
           /\ keywords = <<kBoxes, kTowerCrane, kBoxSp>>
           /\ \A j \in DOMAIN double_weight_keywords :
                double_weight_keywords[j] = kTowerCrane
           /\ double_weight_keywords # <<>>) => score = 50

C15_Witness ==
  /\ op = "analyze_resume"
  /\ pc = "done"
  /\ keywords = <<kBoxes, kTowerCrane, kBoxSp>>
  /\ double_weight_keywords = <<kTowerCrane>>
  /\ found = <<kBoxes, kBoxSp>>
  /\ total_weight = 4
  /\ found_weight = 2
  /\ score = 50

\* what a finished call returns
ResultOf(call) ==
  [found |-> call.found, missing |-> call.missing, score |-> call.score]

\* what analyze_resume returns as a function of its arguments
FunctionOfArguments(call) ==
  LET res == analyze_resume(call.text, call.keywords,
                            call.double_weight_keywords)
  IN  [found |-> res.found, missing |-> res.missing, score |-> res.score]

SameArguments(a, b) ==
  /\ a.text = b.text
  /\ a.keywords = b.keywords
  /\ a.double_weight_keywords = b.double_weight_keywords

\* every finished call returned the value of the function at its arguments,
\* and two finished calls with equal arguments returned equal results
C17_Determinate ==
  /\ \A i \in Invocations :
       invocations[i].pc = "done" =>
         ResultOf(invocations[i]) = FunctionOfArguments(invocations[i])
  /\ \A i, j \in Invocations :
       (/\ invocations[i].pc = "done"
        /\ invocations[j].pc = "done"
        /\ SameArguments(invocations[i], invocations[j])) =>
         ResultOf(invocations[i]) = ResultOf(invocations[j])

\* a step of one call leaves the locals of every other call as they were
C17_Independent ==
  \A i, j \in Invocations :
    (i # j /\ invocations'[i] # invocations[i]) =>
      invocations'[j] = invocations[j]

\* C17: analyze_resume's result is a function of (text, keywords,
\* double_weight_keywords) only: under every interleaving of concurrent calls
\* and every order in which a keyword's patterns are tried, a finished call
\* has the result of the function, calls with equal arguments have equal
\* results, and no call's step touches the state of another call.
C17_DeterministicStateless ==
  /\ []C17_Determinate
  /\ [][C17_Independent]_vars

\* two calls with equal arguments have both finished: "Boxes" found through
\* one of its three patterns, "tower crane" missing after both of its
\* patterns were tried
C17_Witness ==
  /\ invocations[1].pc = "done"
  /\ invocations[2].pc = "done"
  /\ SameArguments(invocations[1], invocations[2])
  /\ invocations[1].text = tABox
  /\ invocations[1].found = <<kBoxes>>
  /\ invocations[1].missing = <<kTowerCrane>>
  /\ invocations[1].double_weight_keywords = <<kBoxes>>
  /\ invocations[1].score = 66

\* the last request ran a manager method that raised ValueError
DefaultRefused == response.raised = "ValueError"

\* no key of custom_profiles is the id of a default profile
C18_NoDefaultKey ==
  \A k \in DOMAIN custom_profiles : ~is_default_profile(k)

\* a call that names a default profile raises ValueError, and a call that
\* raises ValueError leaves the manager and its file as they were
C18_RefusedUnchanged ==
  /\ (response'.target = "default" /\ response'.endpoint # "none") =>
       response'.raised = "ValueError"
  /\ response'.raised = "ValueError" => UNCHANGED manager_vars
  /\ default_profiles' = default_profiles

\* C18: add_custom_profile with a default profile's id, and
\* update_custom_profile or delete_custom_profile targeting a default
\* profile's id, raise ValueError and leave default_profiles, custom_profiles
\* and the storage file unchanged; no key of custom_profiles ever equals a
\* default profile id.
C18_DefaultsProtected ==
  /\ []C18_NoDefaultKey
  /\ [][C18_RefusedUnchanged]_vars

\* a request against the default profile was refused while a custom profile
\* exists and is on file
C18_Witness ==
  /\ DefaultRefused
  /\ response.profile_id = "d1"
  /\ response.endpoint = "PUT"
  /\ DOMAIN custom_profiles = {"p1"}
  /\ custom_profiles["p1"].id = "d1"
  /\ storage_file = [state |-> "json", data |-> custom_profiles]

\* C19: PUT and DELETE /api/job-profiles/{profile_id} answer 404 when
\* profile_id is neither a default nor an existing custom profile, 403 when it
\* names a default profile, and 500 only when something else went wrong (here:
\* the save raised).
C19_StatusCodes ==
  response.endpoint \in {"PUT", "DELETE"} =>
    /\ response.target = "unknown" => response.status_code = 404
    /\ response.target = "default" => response.status_code = 403
    /\ response.status_code = 500 => response.raised = "OSError"

\* filter_resumes answered a request it did not refuse
FilterAnswered ==
  filter_call.pc = "answered" /\ filter_response.status_code = 200

\* the uploaded files that parse and analyse without raising, in upload
\* order, each with its score
RECURSIVE AnalysedFrom(_, _, _, _)
AnalysedFrom(files, kws, dw, i) ==
  IF i > Len(files) THEN <<>>
  ELSE LET parsed == parse_resume(files[i])
           res == analyze_resume(parsed.text, kws, dw)
           rest == AnalysedFrom(files, kws, dw, i + 1)
       IN  IF parsed.raised \/ res.raised THEN rest
           ELSE <<[filename |-> files[i].filename, score |-> res.score]>>
                  \o rest

Analysed ==
  AnalysedFrom(filter_call.files, filter_call.keywords,
               filter_call.double_weight_keywords, 1)

\* the threshold the request asks for
RequestedThreshold ==
  IF filter_call.min_score = <<>> THEN settings.min_keyword_score
  ELSE filter_call.min_score[1]

AtLeast(list, threshold) ==
  LET passes(a) == a.score >= threshold
  IN  SelectSeq(list, passes)

\* the response's candidates as (filename, score) pairs
ReturnedCandidates ==
  [i \in DOMAIN filter_response.candidates |->
     [filename |-> filter_response.candidates[i].filename,
      score |-> filter_response.candidates[i].score]]

\* C20: the candidates of filter_resumes are exactly the successfully
\* analysed resumes whose score >= threshold, where threshold is min_score
\* whenever it is supplied (min_score = 0 admits every analysed resume) and
\* the configured min_keyword_score only when min_score is absent.
C20_CandidatesByThreshold ==
  FilterAnswered =>
    /\ SeqToBag(ReturnedCandidates)
         = SeqToBag(AtLeast(Analysed, RequestedThreshold))
    /\ filter_call.min_score = <<0>> =>
         SeqToBag(ReturnedCandidates) = SeqToBag(Analysed)

\* min_score = 0 was supplied, a file was skipped, and a resume scoring under
\* the configured threshold is among the candidates
C20_Witness ==
  /\ FilterAnswered
  /\ filter_call.min_score = <<0>>
  /\ Len(filter_call.files) = 2
  /\ Len(filter_response.candidates) = 1
  /\ filter_response.candidates[1].filename = fBDocx
  /\ filter_response.candidates[1].score = 33
  /\ filter_response.candidates[1].score < settings.min_keyword_score

\* w ends in one of the suffixes
EndsInAny(w, suffixes) == \E suf \in suffixes : endswith(w, suf)

\* w without its last n characters, followed by tail
Replaced(w, n, tail) == SubSeq(w, 1, Len(w) - n) \o tail

\* the singular candidates of the first applicable clause
SingularCandidates(w) ==
  CASE endswith(w, <<"i","e","s">>) /\ Len(w) > 3 ->
         {Replaced(w, 3, <<"y">>)}
    [] /\ ~(endswith(w, <<"i","e","s">>) /\ Len(w) > 3)
       /\ endswith(w, <<"e","s">>) ->
         ( CASE EndsInAny(w, {<<"s","s","e","s">>, <<"s","h","e","s">>,
                              <<"c","h","e","s">>, <<"x","e","s">>,
                              <<"z","e","s">>}) ->
                  {Replaced(w, 2, <<>>)}
             [] /\ ~EndsInAny(w, {<<"s","s","e","s">>, <<"s","h","e","s">>,
                                  <<"c","h","e","s">>, <<"x","e","s">>,
                                  <<"z","e","s">>})
                /\ endswith(w, <<"v","e","s">>) /\ Len(w) > 3 ->
                  {Replaced(w, 1, <<>>), Replaced(w, 3, <<"f">>),
                   Replaced(w, 3, <<"f","e">>)}
             [] OTHER -> {Replaced(w, 1, <<>>), Replaced(w, 2, <<>>)} )
    [] /\ ~endswith(w, <<"e","s">>)
       /\ endswith(w, <<"s">>) /\ ~endswith(w, <<"s","s">>) ->
         {Replaced(w, 1, <<>>)}
    [] OTHER -> {}

\* w ends in a consonant (a character that is no vowel) followed by "y"
ConsonantY(w) ==
  /\ Len(w) >= 2
  /\ w[Len(w)] = "y"
  /\ w[Len(w) - 1] \notin {"a", "e", "i", "o", "u"}

\* the plural candidate of the first applicable clause
PluralCandidates(w) ==
  CASE ConsonantY(w) /\ Len(w) > 2 -> {Replaced(w, 1, <<"i","e","s">>)}
    [] /\ ~(ConsonantY(w) /\ Len(w) > 2)
       /\ EndsInAny(w, {<<"s">>, <<"s","h">>, <<"c","h">>, <<"x">>, <<"z">>}) ->
         {w \o <<"e","s">>}
    [] /\ ~(ConsonantY(w) /\ Len(w) > 2)
       /\ ~EndsInAny(w, {<<"s">>, <<"s","h">>, <<"c","h">>, <<"x">>, <<"z">>})
       /\ endswith(w, <<"f">>) ->
         {Replaced(w, 1, <<"v","e","s">>)}
    [] /\ ~(ConsonantY(w) /\ Len(w) > 2)
       /\ ~EndsInAny(w, {<<"s">>, <<"s","h">>, <<"c","h">>, <<"x">>, <<"z">>})
       /\ ~endswith(w, <<"f">>)
       /\ endswith(w, <<"f","e">>) ->
         {Replaced(w, 2, <<"v","e","s">>)}
    [] OTHER -> {}

\* the set the rule cascade gives for w
RuleCascade(w) ==
  {w} \cup SingularCandidates(w) \cup PluralCandidates(w)
      \cup (IF endswith(w, <<"s">>) THEN {} ELSE {w \o <<"s">>})

\* C21: for a normalized single-token word w, get_word_variations(w) is
\* exactly the set of the rule cascade applied to w itself: w, the singular
\* candidates of the first applicable clause, the plural candidate of the
\* first applicable clause, and w + "s" when w does not end in "s";
\* variants("cranes") has "crane" and "cran", variants("knife") has "knives".
C21_RuleCascade ==
  (op = "get_word_variations" /\ pc = "done") =>
    /\ variations = RuleCascade(text)
    /\ text = wCranes =>
         {<<"c","r","a","n","e">>, <<"c","r","a","n">>} \subseteq variations
    /\ text = wKnife => <<"k","n","i","v","e","s">> \in variations

\* get_word_variations("cranes") has returned
C21_Witness ==
  /\ op = "get_word_variations"
  /\ pc = "done"
  /\ text = wCranes
  /\ variations = {wCranes, <<"c","r","a","n","e">>, <<"c","r","a","n">>,
                   <<"c","r","a","n","e","s","e","s">>}

\* the resumes analysed by the request, in upload order, as (filename, score)
AnalysedInUploadOrder ==
  [i \in DOMAIN filter_call.all_analyses |->
     [filename |-> filter_call.all_analyses[i].filename,
      score |-> filter_call.all_analyses[i].score]]

\* the elements of the list with this score, in the order of the list
WithScore(list, v) ==
  LET has(a) == a.score = v
  IN  SelectSeq(list, has)

\* C22: the candidates of filter_resumes are in non-increasing score order,
\* candidates with equal scores keep their upload order, and the AI step
\* neither reorders, adds nor removes candidates: whatever the AI step did,
\* the returned list is the upload-ordered list of the resumes that passed,
\* sorted stably by descending score.
C22_SortedStable ==
  FilterAnswered =>
    /\ \A i, j \in DOMAIN ReturnedCandidates :
         i < j => ReturnedCandidates[i].score >= ReturnedCandidates[j].score
    /\ \A v \in {AnalysedInUploadOrder[i].score :
                   i \in DOMAIN AnalysedInUploadOrder} :
         WithScore(ReturnedCandidates, v)
           = WithScore(AtLeast(AnalysedInUploadOrder, filter_call.threshold), v)
    /\ Len(ReturnedCandidates)
         = Len(AtLeast(AnalysedInUploadOrder, filter_call.threshold))

\* two resumes with equal scores came back in upload order, the second one
\* after the AI service was called for it
C22_Witness ==
  /\ FilterAnswered
  /\ Len(ReturnedCandidates) = 2
  /\ ReturnedCandidates[1] = [filename |-> fBDocx, score |-> 50]
  /\ ReturnedCandidates[2] = [filename |-> fAPdf, score |-> 50]
  /\ filter_call.files[1].filename = fBDocx
  /\ filter_call.files[2].filename = fAPdf
  /\ ai_calls = <<fAPdf>>
  /\ filter_response.candidates[2].ai_summary

\* the names of the resumes in a list of analyses
FilenamesOf(list) == [i \in DOMAIN list |-> list[i].filename]

\* C23: a file whose parsing or analysis raises is skipped and the request
\* is still answered: every other file is analysed, total_resumes is the
\* number of files analysed successfully, valid_candidates = len(candidates)
\* and total_resumes = valid_candidates + rejected_candidates.
C23_SkippedFiles ==
  (filter_call.pc = "answered" /\ filter_call.files # <<>>) =>
    /\ filter_response.status_code = 200
    /\ FilenamesOf(filter_call.all_analyses) = FilenamesOf(Analysed)
    /\ filter_response.total_resumes = Len(Analysed)
    /\ filter_response.valid_candidates = Len(filter_response.candidates)
    /\ filter_response.total_resumes
         = filter_response.valid_candidates
             + filter_response.rejected_candidates

\* an unsupported file was uploaded before a resume: the resume is analysed
\* and rejected, the unsupported file is not counted
C23_Witness ==
  /\ FilterAnswered
  /\ FilenamesOf(filter_call.files) = <<fCTxt, fBDocx>>
  /\ FilenamesOf(filter_call.all_analyses) = <<fBDocx>>
  /\ filter_response.total_resumes = 1
  /\ filter_response.valid_candidates = 0
  /\ filter_response.rejected_candidates = 1

\* the resume of this name was analysed, passed the threshold of the request
\* and has at least MIN_TEXT_LENGTH characters of extracted text
PassedWithText(name) ==
  \E i \in DOMAIN filter_call.all_analyses :
    LET analysis == filter_call.all_analyses[i]
    IN  /\ analysis.filename = name
        /\ analysis.score >= RequestedThreshold
        /\ Len(analysis.text_content) >= MIN_TEXT_LENGTH

\* C24: the AI summary service is invoked only when generate_ai_summary and
\* settings.use_openai are both true, and only for resumes that passed the
\* score threshold and are not image-based (at least MIN_TEXT_LENGTH
\* characters of extracted text).
C24_AiCallsOnlyForQualified ==
  FilterAnswered =>
    /\ ai_calls # <<>> =>
         (filter_call.generate_ai_summary /\ settings.use_openai)
    /\ \A k \in DOMAIN ai_calls : PassedWithText(ai_calls[k])

\* two candidates passed, the service was called for the one with 100
\* characters of text and not for the one with 99
C24_Witness ==
  /\ FilterAnswered
  /\ filter_call.generate_ai_summary
  /\ settings.use_openai
  /\ filter_call.min_score = <<0>>
  /\ FilenamesOf(filter_response.candidates) = <<fAPdf, fBDocx>>
  /\ Len(filter_response.candidates[1].text_content) = MIN_TEXT_LENGTH
  /\ Len(filter_response.candidates[2].text_content) = MIN_TEXT_LENGTH - 1
  /\ filter_response.candidates[2].is_image_based
  /\ ai_calls = <<fAPdf>>

\* the last request ran a manager method that changed custom_profiles and
\* whose save succeeded
SavedByLastCall ==
  /\ response.endpoint # "none"
  /\ response.raised = "none"
  /\ response.target # "unknown" \/ response.endpoint = "POST"

\* what a manager freshly constructed on the file would hold
FreshlyLoaded == load_custom_profiles(storage_file)

\* the profiles of a dict as they are written to the file
Dumped(custom) == [k \in DOMAIN custom |-> model_dump(custom[k])]

\* after a call that saved, the file holds exactly custom_profiles
C25_SavedInSync ==
  SavedByLastCall =>
    /\ storage_file = [state |-> "json", data |-> Dumped(custom_profiles)]
    /\ FreshlyLoaded = custom_profiles

\* a call whose save did not fail keeps the file and custom_profiles in
\* step; update or delete of an id that is not a custom profile returns
\* None / False and changes neither custom_profiles nor the file
C25_StaysInSync ==
  /\ (/\ FreshlyLoaded = custom_profiles
      /\ response'.endpoint # "none"
      /\ response'.raised # "OSError") =>
       load_custom_profiles(storage_file') = custom_profiles'
  /\ (response'.endpoint \in {"PUT", "DELETE"}
        /\ response'.target = "unknown") =>
       /\ response'.raised = "none"
       /\ UNCHANGED manager_vars

\* C25: after any sequence of add_custom_profile, update_custom_profile and
\* delete_custom_profile calls whose saves succeed, the storage file holds
\* exactly custom_profiles (a manager freshly constructed on the file holds
\* the same ids and profiles); update or delete of an id that is not a
\* custom profile returns None / False and changes neither custom_profiles
\* nor the file.
C25_Persistence ==
  /\ []C25_SavedInSync
  /\ [][C25_StaysInSync]_vars

\* a custom profile was replaced and the file holds the two profiles
C25_Witness ==
  /\ response.endpoint = "PUT"
  /\ response.target = "custom"
  /\ response.raised = "none"
  /\ DOMAIN custom_profiles = {"p1", "p2"}
  /\ custom_profiles["p1"] = [id |-> "p1", name |-> "n2"]
  /\ storage_file = [state |-> "json", data |-> Dumped(custom_profiles)]
  /\ FreshlyLoaded = custom_profiles

\* C26: every custom profile is stored under its own id, so get_all_profiles
\* never lists two profiles with the same id and get_profile_by_id(p.id)
\* returns p for every listed profile p.
C26_StoredUnderOwnId ==
  /\ \A k \in DOMAIN custom_profiles : custom_profiles[k].id = k
  /\ \A i, j \in DOMAIN get_all_profiles :
       i # j => get_all_profiles[i].id # get_all_profiles[j].id
  /\ \A i \in DOMAIN get_all_profiles :
       get_profile_by_id(get_all_profiles[i].id) = get_all_profiles[i]

\* C27: when _save_custom_profiles raises, custom_profiles is the same as
\* before the call, so custom_profiles and the storage file never diverge.
C27_AtomicOnSaveFailure ==
  /\ [][response'.raised = "OSError" => custom_profiles' = custom_profiles]_vars
  /\ [](FreshlyLoaded = custom_profiles)

====
